---- MODULE Spec2Model ----
(***************************************************************************)
(* A model of bayesloop's RasterStudy (src/bayesloop/rasterStudy.py): the  *)
(* fit method with its single-process sweep and its pathos-based parallel  *)
(* sweep (parallelFit), and the two marginalisation/plot methods.          *)
(*                                                                         *)
(* Numbers.  The code computes with IEEE floats.  The model computes with  *)
(* exact non-negative extended rationals <<n, d>> (n, d naturals, reduced):*)
(*   <<n, d>> with d > 0 is n/d,  <<1, 0>> is +inf,  <<0, 0>> is nan.      *)
(* Division by zero therefore gives inf or nan as numpy does, and nan      *)
(* propagates.  A quantity the code holds in the log domain (a            *)
(* log-evidence, the log of a prior) is a record [ln |-> w]: the logarithm *)
(* of the extended rational w (ln 0 = -inf, ln inf = +inf, ln nan = nan).  *)
(***************************************************************************)
EXTENDS Integers, Sequences, FiniteSets, TLC

\* ------------------------------------------------------------------------
\* Bounds of the model
\* ------------------------------------------------------------------------
MaxSteps == 5
MaxJobs == 5
MaxAxis == 3
MaxFits == 2

\* Python's None.  No attribute that can be None can hold an empty array, so None
\* is written as the empty tuple (TLC compares it with arrays and records alike).
None == <<>>

\* ------------------------------------------------------------------------
\* Extended rational arithmetic (numpy float semantics on non-negative values)
\* ------------------------------------------------------------------------
RECURSIVE Gcd(_, _)
Gcd(a, b) == IF b = 0 THEN a ELSE Gcd(b, a % b)

Norm(n, d) ==
    IF d = 0 THEN (IF n = 0 THEN <<0, 0>> ELSE <<1, 0>>)
    ELSE IF n = 0 THEN <<0, 1>>
    ELSE LET g == Gcd(n, d) IN <<n \div g, d \div g>>

Zero == <<0, 1>>
One == <<1, 1>>
Inf == <<1, 0>>
NaN == <<0, 0>>
Num(k) == <<k, 1>>

IsNaN(a) == a = NaN
IsInf(a) == a = Inf
IsFinite(a) == a[2] > 0

WAdd(a, b) ==
    IF IsNaN(a) \/ IsNaN(b) THEN NaN
    ELSE IF IsInf(a) \/ IsInf(b) THEN Inf
    ELSE Norm(a[1] * b[2] + b[1] * a[2], a[2] * b[2])

WMul(a, b) == Norm(a[1] * b[1], a[2] * b[2])

WDiv(a, b) == Norm(a[1] * b[2], a[2] * b[1])

\* a <= b on finite values
WLeq(a, b) == a[1] * b[2] <= b[1] * a[2]

RECURSIVE WSum(_)
WSum(s) == IF s = <<>> THEN Zero ELSE WAdd(s[1], WSum(Tail(s)))

RECURSIVE WProd(_)
WProd(s) == IF s = <<>> THEN One ELSE WMul(s[1], WProd(Tail(s)))

\* np.max: nan if any entry is nan, else the largest entry
WMax(s) ==
    IF \E k \in 1..Len(s) : IsNaN(s[k]) THEN NaN
    ELSE IF \E k \in 1..Len(s) : IsInf(s[k]) THEN Inf
    ELSE CHOOSE m \in {s[k] : k \in 1..Len(s)} : \A k \in 1..Len(s) : WLeq(s[k], m)

\* log-domain values
Log(w) == [ln |-> w]
Exp(l) == l.ln
\* x + y and x - y in the log domain
LAdd(x, y) == [ln |-> WMul(x.ln, y.ln)]
LSub(x, y) == [ln |-> WDiv(x.ln, y.ln)]

\* ------------------------------------------------------------------------
\* Collaborators of RasterStudy that live outside rasterStudy.py
\* ------------------------------------------------------------------------
\* The parameter grid of the observation model (Study.grid: one axis, two cells)
\* and the number of time steps of the formatted data.
grid == << <<Zero, One>> >>
gridSize == Len(grid[1])
Half == <<1, 2>>
Delta(c) == [k \in 1..gridSize |-> IF k = c THEN One ELSE Zero]
Flat == [k \in 1..gridSize |-> WDiv(One, Num(gridSize))]

\* What one run of Study.fit can give for one hyper-parameter point: an evidence
\* E (logEvidence = ln E), the local evidence per time step and the posterior
\* sequence (time steps x grid cells, every time step summing to one).
FitOutcomes ==
    << [E |-> One,      le |-> <<One, One>>,      post |-> <<Delta(1), Delta(1)>>],
       [E |-> Num(2),   le |-> <<One, Num(2)>>,   post |-> <<Delta(2), Flat>>],
       [E |-> Half,     le |-> <<Half, One>>,     post |-> <<Flat, Delta(2)>> ] >>
numTimeSteps == Len(FitOutcomes[1].post)

\* The oracles of a model run: which outcome Study.fit gives at which
\* hyper-parameter values (None: the values bound before any raster point was).
\* Oracle number k gives the outcomes in turn along the points, starting with
\* outcome k; one more oracle gives the same outcome at every point.
RECURSIVE PointWeight(_)
PointWeight(pt) == IF pt = <<>> THEN 0 ELSE pt[1][1] + pt[1][2] + PointWeight(Tail(pt))

Oracles(points) ==
    {[pt \in points \cup {None} |->
        FitOutcomes[((PointWeight(pt) + k) % Len(FitOutcomes)) + 1]] :
            k \in 1..Len(FitOutcomes)}
    \cup {[pt \in points \cup {None} |-> FitOutcomes[1]]}

\* The probability densities a caller can pass as priors (SymPy random
\* variables), by what the lambdified pdf returns at a hyper-parameter value x:
\*   "flat"  a density that is constant on the raster,
\*   "ramp"  a density proportional to x (zero at x = 0),
\*   "far"   a density whose support does not meet the raster (zero everywhere),
\*   "free"  a density with a free symbol (rejected before it is evaluated).
Pdf(rv, x) ==
    CASE rv = "flat" -> One
      [] rv = "ramp" -> x
      [] rv = "far"  -> Zero
      [] OTHER       -> NaN

HasFreeSymbols(rv) == rv = "free"

\* ------------------------------------------------------------------------
\* Grid builder (fit, lines 83-87)
\* ------------------------------------------------------------------------
\* np.linspace(lower, upper, steps) for 0 <= lower <= upper, steps >= 1
Linspace(lower, upper, steps) ==
    [k \in 1..steps |->
        IF steps = 1 THEN Num(lower)
        ELSE Norm(lower * (steps - 1) + (k - 1) * (upper - lower), steps - 1)]

\* np.meshgrid(*axes, indexing='ij'), each array ravelled, transposed: the points
\* of the Cartesian product, the first axis varying slowest
RECURSIVE Mesh(_)
Mesh(axes) ==
    IF axes = <<>> THEN << <<>> >>
    ELSE LET rest == Mesh(Tail(axes))
             n == Len(rest)
         IN [p \in 1..(Len(axes[1]) * n) |->
                <<axes[1][((p - 1) \div n) + 1]>> \o rest[((p - 1) % n) + 1]]

RasterValues(raster) ==
    Mesh([d \in 1..Len(raster) |->
            Linspace(raster[d].lower, raster[d].upper, raster[d].steps)])

\* np.abs(upper-lower)/(float(steps)-1): a numpy scalar division, so steps = 1
\* gives inf (or nan when upper = lower) and not an exception
Spacing(r) ==
    WDiv(Num(IF r.upper >= r.lower THEN r.upper - r.lower ELSE r.lower - r.upper),
         Num(r.steps - 1))

RasterConstant(raster) == [d \in 1..Len(raster) |-> Spacing(raster[d])]

\* ------------------------------------------------------------------------
\* Prior evaluator (fit, lines 103-132)
\* ------------------------------------------------------------------------
UniformPrior(rasterValues) ==
    [p \in 1..Len(rasterValues) |-> WDiv(One, Num(Len(rasterValues)))]

\* self.hyperParameterPrior after the first n priors were multiplied in
RECURSIVE PriorProduct(_, _, _)
PriorProduct(rasterValues, prior, n) ==
    IF n = 0 THEN [p \in 1..Len(rasterValues) |-> One]
    ELSE LET prev == PriorProduct(rasterValues, prior, n - 1)
         IN [p \in 1..Len(rasterValues) |->
                WMul(prev[p], Pdf(prior[n], rasterValues[p][n]))]

Renormalize(v) == [p \in 1..Len(v) |-> WDiv(v[p], WSum(v))]

\* index of the first prior with free symbols, 0 if there is none
FirstFree(prior) ==
    IF \E n \in 1..Len(prior) : HasFreeSymbols(prior[n])
    THEN CHOOSE n \in 1..Len(prior) :
            /\ HasFreeSymbols(prior[n])
            /\ \A m \in 1..(n - 1) : ~HasFreeSymbols(prior[m])
    ELSE 0

\* ------------------------------------------------------------------------
\* Array helpers (numpy)
\* ------------------------------------------------------------------------
\* np.zeros([len(self.formattedData)]+self.gridSize)
Zeros == [t \in 1..numTimeSteps |-> [c \in 1..gridSize |-> Zero]]

\* a + b * w, elementwise, for time-steps x cells arrays a, b and a scalar w
AddScaled(a, b, w) ==
    [t \in 1..Len(a) |-> [c \in 1..Len(a[t]) |-> WAdd(a[t][c], WMul(b[t][c], w))]]

\* np.array_split(a, n)[idx], idx = 0..n-1: the first len(a) % n sections hold
\* len(a) // n + 1 elements, the others len(a) // n
SectionStart(len, n, idx) ==
    idx * (len \div n) + (IF idx < len % n THEN idx ELSE len % n)

\* a split that drops the remainder: every section len(a) // n elements
ArraySplitMutant(a, n, idx) ==
    SubSeq(a, idx * (Len(a) \div n) + 1, (idx + 1) * (Len(a) \div n))
ArraySplit(a, n, idx) ==
    SubSeq(a, SectionStart(Len(a), n, idx) + 1, SectionStart(Len(a), n, idx + 1))

\* scipy.misc.logsumexp(a): a_max = a.max(); log(sum(exp(a - a_max))) + a_max
LogSumExp(a) ==
    LET a_max == Log(WMax([k \in 1..Len(a) |-> Exp(a[k])]))
    IN LAdd(Log(WSum([k \in 1..Len(a) |-> Exp(LSub(a[k], a_max))])), a_max)

\* np.mean of log-domain values, as far as the model needs it: "nan", "+inf",
\* "-inf" (the mean of logarithms one of which is ln 0), or "finite" (ln g for
\* the geometric mean g of finite positive values)
LogMean(a) ==
    LET w == [k \in 1..Len(a) |-> Exp(a[k])]
        anyNaN == \E k \in 1..Len(w) : IsNaN(w[k])
        anyInf == \E k \in 1..Len(w) : IsInf(w[k])
        anyZero == \E k \in 1..Len(w) : w[k] = Zero
    IN IF anyNaN \/ (anyInf /\ anyZero) \/ Len(a) = 0 THEN "nan"
       ELSE IF anyInf THEN "+inf"
       ELSE IF anyZero THEN "-inf"
       ELSE "finite"

\* exp(x - mean) for one entry x.  With a finite mean ln g the result is
\* exp(x)/g for the same positive finite g in every entry; line 220 divides g
\* out again, so the entry is kept in units of 1/g.
ExpShifted(x, mean) ==
    CASE mean = "finite" -> Exp(x)
      [] mean = "-inf"   -> Exp(LSub(x, Log(Zero)))
      [] mean = "+inf"   -> Exp(LSub(x, Log(Inf)))
      [] OTHER           -> Exp(LSub(x, Log(NaN)))

\* ------------------------------------------------------------------------
\* Study (study.py): the single-point filtering routine and its hyper-parameters
\* ------------------------------------------------------------------------
\* Study.setSelectedHyperParameters: bind the values of one raster point
SetSelectedHyperParameters(s, hyperParamValues) ==
    [s EXCEPT !.hyperParameters = hyperParamValues]

\* sum(p * grid[j]) for every time step of a posterior sequence
MeanValues(post) ==
    [j \in 1..Len(grid) |->
        [t \in 1..Len(post) |->
            WSum([c \in 1..gridSize |-> WMul(post[t][c], grid[j][c])])]]

\* Study.fit on s with result r: the evidence fields always, the posterior
\* fields unless evidenceOnly
StudyFit(s, r, evidenceOnly) ==
    LET e == [s EXCEPT !.logEvidence = Log(r.E), !.localEvidence = r.le]
    IN IF evidenceOnly THEN e
       ELSE [e EXCEPT !.posteriorSequence = r.post,
                      !.posteriorMeanValues = MeanValues(r.post)]

\* ------------------------------------------------------------------------
\* RasterStudy.fit, up to the sweep (lines 72-146)
\* ------------------------------------------------------------------------
Names(raster) == [d \in 1..Len(raster) |-> raster[d].name]

\* lines 74-98: the raster of the call, or the attributes set by the caller.
\* status: "ok", "standard" (no raster: the standard fit method), or the
\* configuration error that makes fit return
GridStage(s, a) ==
    IF ~a.customRaster
    THEN IF a.raster = <<>>
         THEN [st |-> [s EXCEPT !.raster = a.raster], status |-> "standard"]
         ELSE [st |-> [s EXCEPT !.raster = a.raster,
                                !.rasterValues = RasterValues(a.raster),
                                !.rasterConstant = RasterConstant(a.raster)],
               status |-> "ok"]
    ELSE IF s.raster = <<>> THEN [st |-> s, status |-> "noRaster"]
    ELSE IF s.rasterValues = <<>> THEN [st |-> s, status |-> "noRasterValues"]
    ELSE IF s.rasterConstant = <<>> THEN [st |-> s, status |-> "noRasterConstant"]
    ELSE [st |-> s, status |-> "ok"]

\* lines 103-132: the hyper-parameter prior
PriorStage(s, a) ==
    IF a.prior = <<>>
    THEN [st |-> [s EXCEPT !.hyperParameterPrior = UniformPrior(s.rasterValues)],
          status |-> "ok"]
    ELSE IF Len(a.prior) # Len(s.rasterValues[1])
    THEN [st |-> s, status |-> "priorCount"]
    ELSE IF FirstFree(a.prior) > 0
    THEN [st |-> [s EXCEPT !.hyperParameterPrior =
                     PriorProduct(s.rasterValues, a.prior, FirstFree(a.prior) - 1)],
          status |-> "priorFree"]
    ELSE [st |-> [s EXCEPT !.hyperParameterPrior =
                     Renormalize(PriorProduct(s.rasterValues, a.prior, Len(a.prior)))],
          status |-> "ok"]

\* an allocation that does not look at evidenceOnly
AllocStageMutant(s, a) ==
    [s EXCEPT !.averagePosteriorSequence = Zeros,
              !.logEvidenceList = <<>>,
              !.localEvidenceList = <<>>,
              !.selectedHyperParameters = Names(s.raster)]
\* lines 134-141: the accumulator, the evidence lists, the selected names
AllocStage(s, a) ==
    [s EXCEPT !.averagePosteriorSequence = IF a.evidenceOnly THEN @ ELSE Zeros,
              !.logEvidenceList = <<>>,
              !.localEvidenceList = <<>>,
              !.selectedHyperParameters = Names(s.raster)]

\* a preparation that goes on whatever self.checkConsistency() returns
PrepareMutant(s, a, consistent) ==
    LET g == GridStage(s, a)
    IN IF g.status # "ok" THEN g
       ELSE LET p == PriorStage(g.st, a)
            IN IF p.status # "ok" THEN p
               ELSE [st |-> AllocStage(p.st, a), status |-> "ok"]
\* lines 74-144 in order; consistent is what self.checkConsistency() returns
Prepare(s, a, consistent) ==
    LET g == GridStage(s, a)
    IN IF g.status # "ok" THEN g
       ELSE LET p == PriorStage(g.st, a)
            IN IF p.status # "ok" THEN p
               ELSE [st |-> AllocStage(p.st, a),
                     status |-> IF consistent THEN "ok" ELSE "inconsistent"]

\* a worker count that stays as passed when the import fails
EffectiveJobsMutant(nJobs, pathos) == nJobs
\* lines 148-155: the worker count after the import of pathos was tried
EffectiveJobs(nJobs, pathos) == IF nJobs > 1 /\ ~pathos THEN 1 ELSE nJobs

\* ------------------------------------------------------------------------
\* The sweep (lines 178-189) and parallelFit (lines 278-293)
\* ------------------------------------------------------------------------
\* lines 184-189, after Study.fit ran for raster point idx (1-based)
SweepAccumulate(s, idx, evidenceOnly) ==
    LET lst == Append(s.logEvidenceList, s.logEvidence)
    IN [s EXCEPT !.logEvidenceList = lst,
                 !.localEvidenceList = Append(@, s.localEvidence),
                 !.averagePosteriorSequence =
                     IF evidenceOnly THEN @
                     ELSE AddScaled(@, s.posteriorSequence,
                                    WMul(Exp(LSub(s.logEvidence, lst[1])),
                                         s.hyperParameterPrior[idx]))]

\* lines 278-280: the worker's copy of the instance with its share of the raster
ParallelFitCopy(s, idx, nJobs) ==
    [s EXCEPT !.rasterValues = ArraySplit(s.rasterValues, nJobs, idx),
              !.hyperParameterPrior = ArraySplit(s.hyperParameterPrior, nJobs, idx)]

\* lines 288-293, on the worker's copy S
ParallelAccumulate(S, idx, evidenceOnly) ==
    LET lst == Append(S.logEvidenceList, S.logEvidence)
    IN [S EXCEPT !.logEvidenceList = lst,
                 !.localEvidenceList = Append(@, S.localEvidence),
                 !.averagePosteriorSequence =
                     IF evidenceOnly THEN @
                     ELSE AddScaled(@, S.posteriorSequence,
                                    WMul(Exp(LSub(S.logEvidence, lst[1])),
                                         S.hyperParameterPrior[idx]))]

\* a merge that puts the lists of each sub-study in front of those merged so far
RECURSIVE MergeMutant(_, _, _, _)
MergeMutant(s, subs, n, evidenceOnly) ==
    IF n = 0 THEN s
    ELSE LET m == MergeMutant(s, subs, n - 1, evidenceOnly)
             S == subs[n].S
         IN [m EXCEPT !.logEvidenceList = S.logEvidenceList \o @,
                      !.localEvidenceList = S.localEvidenceList \o @,
                      !.averagePosteriorSequence =
                          IF evidenceOnly THEN @
                          ELSE AddScaled(@, S.averagePosteriorSequence, One)]

\* lines 171-175: merge the first n sub-studies into s
RECURSIVE Merge(_, _, _, _)
Merge(s, subs, n, evidenceOnly) ==
    IF n = 0 THEN s
    ELSE LET m == Merge(s, subs, n - 1, evidenceOnly)
             S == subs[n].S
         IN [m EXCEPT !.logEvidenceList = @ \o S.logEvidenceList,
                      !.localEvidenceList = @ \o S.localEvidenceList,
                      !.averagePosteriorSequence =
                          IF evidenceOnly THEN @
                          ELSE AddScaled(@, S.averagePosteriorSequence, One)]

\* ------------------------------------------------------------------------
\* RasterStudy.fit after the sweep (lines 195-248)
\* ------------------------------------------------------------------------
\* lines 200-203: every time step divided by its sum
NormalizeSequence(seq) ==
    [t \in 1..Len(seq) |-> [c \in 1..Len(seq[t]) |-> WDiv(seq[t][c], WSum(seq[t]))]]

\* line 212 and 217: logEvidenceList + np.log(hyperParameterPrior)
LogJoint(s) ==
    [k \in 1..Len(s.logEvidenceList) |->
        LAdd(s.logEvidenceList[k], Log(s.hyperParameterPrior[k]))]

\* lines 217-221: the posterior density of the hyper-parameters
HyperParameterDistribution(s) ==
    LET x == LogJoint(s)
        scaled == [k \in 1..Len(x) |-> ExpShifted(x[k], LogMean(x))]
        mass == [k \in 1..Len(x) |-> WDiv(scaled[k], WSum(scaled))]
    IN [k \in 1..Len(x) |-> WDiv(mass[k], WProd(s.rasterConstant))]

\* line 227: the local evidence of the average model
LocalEvidence(lst, dist) ==
    [t \in 1..numTimeSteps |->
        WSum([k \in 1..Len(lst) |-> WMul(lst[k][t], dist[k])])]

Aggregate(s, evidenceOnly) ==
    LET avg == NormalizeSequence(s.averagePosteriorSequence)
        dist == HyperParameterDistribution(s)
        e == [s EXCEPT !.selectedHyperParameters = <<>>,
                       !.logEvidence = LogSumExp(LogJoint(s)),
                       !.hyperParameterDistribution = dist,
                       !.localEvidence = LocalEvidence(s.localEvidenceList, dist),
                       !.hyperParameterPrior = None,
                       !.logEvidenceList = <<>>,
                       !.localEvidenceList = <<>>]
    IN IF evidenceOnly THEN e
       ELSE [e EXCEPT !.averagePosteriorSequence = avg,
                      !.posteriorSequence = avg,
                      !.posteriorMeanValues = MeanValues(avg)]

\* ------------------------------------------------------------------------
\* Marginalisation (plotHyperParameterDistribution, plotJointHyperParameterDistribution)
\* ------------------------------------------------------------------------
RECURSIVE IntProd(_)
IntProd(s) == IF s = <<>> THEN 1 ELSE s[1] * IntProd(Tail(s))

RasterSteps(raster) == [d \in 1..Len(raster) |-> raster[d].steps]

\* the 0-based coordinate along axis d (1-based) of the flat index p (1-based) of
\* an array of shape steps in C order
Coord(p, steps, d) ==
    ((p - 1) \div IntProd(SubSeq(steps, d + 1, Len(steps)))) % steps[d]

RECURSIVE SortedSeq(_)
SortedSeq(S) ==
    IF S = {} THEN <<>>
    ELSE LET m == CHOOSE x \in S : \A y \in S : x <= y
         IN <<m>> \o SortedSeq(S \ {m})

\* lines 344-351 and 431-438: the distribution reshaped to the raster steps,
\* summed over the axes to marginalize (0-based), times their raster constants
Marginal(dist, raster, rasterConstant, axesToMarginalize) ==
    LET steps == RasterSteps(raster)
        keep == SortedSeq({d \in 1..Len(steps) : (d - 1) \notin axesToMarginalize})
        keptSteps == [k \in 1..Len(keep) |-> steps[keep[k]]]
        cells(q) == SortedSeq({p \in 1..Len(dist) :
                        \A k \in 1..Len(keep) :
                            Coord(p, steps, keep[k]) = Coord(q, keptSteps, k)})
        factor == WProd([k \in 1..Cardinality(axesToMarginalize) |->
                            rasterConstant[SortedSeq(axesToMarginalize)[k] + 1]])
    IN [q \in 1..IntProd(keptSteps) |->
            WMul(WSum([k \in 1..Len(cells(q)) |-> dist[cells(q)[k]]]), factor)]

\* hyperParameterDistribution.reshape(rasterSteps) raises unless the
\* distribution is an array with as many entries as the raster has points
Reshapable(s) ==
    /\ s.hyperParameterDistribution # None
    /\ Len(s.hyperParameterDistribution) = IntProd(RasterSteps(s.raster))

\* lines 329-331: the index of the last raster entry called param, else -1
NameIndex(names, param) ==
    IF \E k \in 1..Len(names) : names[k] = param
    THEN (CHOOSE k \in 1..Len(names) :
            names[k] = param /\ \A m \in (k + 1)..Len(names) : names[m] # param) - 1
    ELSE -1

\* plotHyperParameterDistribution(param): what the call does.
\*   status "config": a message is printed and None is returned
\*   status "raised": an exception leaves the method
\*   status "ok":     the marginal distribution is returned
PlotHyperParameterDistribution(s, param) ==
    LET names == Names(s.raster)
        paramIndex == IF param.kind = "int" THEN param.index
                      ELSE NameIndex(names, param.name)
    IN IF param.kind \notin {"int", "str"} THEN [status |-> "config", marginal |-> None]
       ELSE IF param.kind = "str" /\ paramIndex = -1
       THEN [status |-> "config", marginal |-> None]
       \* axesToMarginalize.remove(paramIndex)
       ELSE IF paramIndex \notin 0..(Len(names) - 1)
       THEN [status |-> "raised", marginal |-> None]
       ELSE IF ~Reshapable(s) THEN [status |-> "raised", marginal |-> None]
       ELSE [status |-> "ok",
             marginal |-> Marginal(s.hyperParameterDistribution, s.raster, s.rasterConstant,
                                   (0..(Len(names) - 1)) \ {paramIndex})]

\* lines 401-408: the indices collected for a list of names, raster order first
RECURSIVE NameIndices(_, _, _)
NameIndices(names, params, n) ==
    IF n = 0 THEN <<>>
    ELSE NameIndices(names, params, n - 1)
         \o SelectSeq([k \in 1..Len(params) |-> IF params[k].name = names[n] THEN n - 1 ELSE -1],
                      LAMBDA x : x # -1)

\* plotJointHyperParameterDistribution(params) for a list params
PlotJointHyperParameterDistribution(s, params) ==
    LET names == Names(s.raster)
        allInt == \A k \in 1..Len(params) : params[k].kind = "int"
        allStr == \A k \in 1..Len(params) : params[k].kind = "str"
        found == IF allInt THEN [k \in 1..Len(params) |-> params[k].index]
                 ELSE NameIndices(names, params, Len(names))
        \* lines 423-425, reached when found holds two indices
        paramIndices == IF found[1] < found[2] THEN found ELSE <<found[2], found[1]>>
        config == [status |-> "config", marginal |-> None]
        raised == [status |-> "raised", marginal |-> None]
    IN IF Len(params) # 2 THEN config
       ELSE IF ~allInt /\ ~allStr THEN config
       ELSE IF allStr /\ found = <<>> THEN config
       \* line 419 prints and goes on: paramIndices[1] raises IndexError
       ELSE IF Len(found) < 2 THEN raised
       \* axesToMarginalize.remove(p) for both indices
       ELSE IF paramIndices[1] \notin 0..(Len(names) - 1)
               \/ paramIndices[2] \notin 0..(Len(names) - 1)
               \/ paramIndices[1] = paramIndices[2]
       THEN raised
       ELSE IF ~Reshapable(s) THEN raised
       ELSE [status |-> "ok",
             marginal |-> Marginal(s.hyperParameterDistribution, s.raster, s.rasterConstant,
                                   (0..(Len(names) - 1)) \ {paramIndices[1], paramIndices[2]})]

\* ------------------------------------------------------------------------
\* State
\* ------------------------------------------------------------------------
VARIABLES
    self,        \* the RasterStudy instance: its attributes, by name
    pc,          \* where the running fit call is: "idle", "sweep", "parallel"
    call,        \* the last fit call: evidenceOnly, and once it reached the sweep
                 \* its other arguments, pathos, and what checkConsistency gave
    i,           \* the number of raster points the single-process sweep has done
    subStudies,  \* parallel sweep: per worker, its copy S and its loop index i
    oracle,      \* what Study.fit gives for each hyper-parameter point
    outcome,     \* how the last fit call ended ("running" while it runs)
    nPointFits,  \* Study.fit calls for raster points made by this fit call
    fits,        \* fit calls so far
    plot         \* the last marginalisation call and what it did

vars == <<self, pc, call, i, subStudies, oracle, outcome, nPointFits, fits, plot>>

\* RasterStudy.__init__ (the Study attributes are unset before the first fit)
NewRasterStudy ==
    [raster |-> <<>>,
     rasterValues |-> <<>>,
     rasterConstant |-> <<>>,
     hyperParameterPrior |-> None,
     hyperParameterDistribution |-> None,
     averagePosteriorSequence |-> None,
     logEvidenceList |-> <<>>,
     localEvidenceList |-> <<>>,
     selectedHyperParameters |-> <<>>,
     hyperParameters |-> None,
     logEvidence |-> None,
     localEvidence |-> None,
     posteriorSequence |-> None,
     posteriorMeanValues |-> None]

NoCall == [prior |-> <<>>, evidenceOnly |-> FALSE, customRaster |-> FALSE,
           nJobs |-> 1, pathos |-> FALSE, jobs |-> 1, consistent |-> TRUE]

InitWith(oracles) ==
    /\ self = NewRasterStudy
    /\ pc = "idle"
    /\ call = NoCall
    /\ i = 0
    /\ subStudies = <<>>
    /\ oracle \in oracles
    /\ outcome = "none"
    /\ nPointFits = 0
    /\ fits = 0
    /\ plot = [method |-> "none", params |-> <<>>, status |-> "none", marginal |-> None]

\* what a fit produces
Results(s) ==
    [logEvidence |-> s.logEvidence,
     hyperParameterDistribution |-> s.hyperParameterDistribution,
     localEvidence |-> s.localEvidence,
     averagePosteriorSequence |-> s.averagePosteriorSequence,
     posteriorSequence |-> s.posteriorSequence,
     posteriorMeanValues |-> s.posteriorMeanValues]

\* ------------------------------------------------------------------------
\* Actions
\* ------------------------------------------------------------------------
\* The caller sets the attributes a custom raster needs (docstring of fit)
SetCustomRaster(c) ==
    /\ pc = "idle"
    /\ self' = [self EXCEPT !.raster = c.raster,
                            !.rasterValues = c.rasterValues,
                            !.rasterConstant = c.rasterConstant]
    /\ UNCHANGED <<pc, call, i, subStudies, oracle, outcome, nPointFits, fits, plot>>

\* fit(raster=[]) without customRaster: the standard fit method, once, with the
\* hyper-parameter values bound last (lines 78-81)
FitStandard(a) ==
    /\ pc = "idle"
    /\ fits < MaxFits
    /\ GridStage(self, a).status = "standard"
    /\ self' = StudyFit(GridStage(self, a).st, oracle[self.hyperParameters], a.evidenceOnly)
    /\ call' = [NoCall EXCEPT !.evidenceOnly = a.evidenceOnly]
    /\ outcome' = "standard"
    /\ nPointFits' = 0
    /\ fits' = fits + 1
    /\ UNCHANGED <<pc, i, subStudies, oracle, plot>>

\* fit(...) from its first line to the start of the sweep (lines 72-168): it
\* returns on a configuration error, else the sweep or the workers start
Fit(a, pathos, consistent) ==
    /\ pc = "idle"
    /\ fits < MaxFits
    /\ LET p == Prepare(self, a, consistent)
           jobs == EffectiveJobs(a.nJobs, pathos)
       IN /\ p.status # "standard"
          /\ self' = p.st
          /\ call' = IF p.status # "ok"
                      THEN [NoCall EXCEPT !.evidenceOnly = a.evidenceOnly]
                      ELSE [prior |-> a.prior, evidenceOnly |-> a.evidenceOnly,
                            customRaster |-> a.customRaster, nJobs |-> a.nJobs,
                            pathos |-> pathos /\ a.nJobs > 1, jobs |-> jobs,
                            consistent |-> consistent]
          /\ IF p.status # "ok"
             THEN pc' = "idle" /\ outcome' = p.status /\ subStudies' = <<>>
             \* line 160 without the import: ProcessPool is not defined
             ELSE IF jobs > 1 /\ ~pathos
             THEN pc' = "idle" /\ outcome' = "raised" /\ subStudies' = <<>>
             ELSE IF jobs > 1
             THEN /\ pc' = "parallel"
                  /\ outcome' = "running"
                  /\ subStudies' = [k \in 1..jobs |->
                                      [S |-> ParallelFitCopy(p.st, k - 1, jobs), i |-> 0]]
             ELSE pc' = "sweep" /\ outcome' = "running" /\ subStudies' = <<>>
    /\ i' = 0
    /\ nPointFits' = 0
    /\ fits' = fits + 1
    /\ UNCHANGED <<oracle, plot>>

\* one pass of the loop of lines 178-189, Study.fit returning
SweepStep ==
    /\ pc = "sweep"
    /\ i < Len(self.rasterValues)
    /\ LET hyperParamValues == self.rasterValues[i + 1]
           s == StudyFit(SetSelectedHyperParameters(self, hyperParamValues),
                         oracle[hyperParamValues], call.evidenceOnly)
       IN self' = SweepAccumulate(s, i + 1, call.evidenceOnly)
    /\ i' = i + 1
    /\ nPointFits' = nPointFits + 1
    /\ UNCHANGED <<pc, call, subStudies, oracle, outcome, fits, plot>>

\* Study.fit raises for raster point i: the exception leaves fit
SweepFail ==
    /\ pc = "sweep"
    /\ i < Len(self.rasterValues)
    /\ self' = SetSelectedHyperParameters(self, self.rasterValues[i + 1])
    /\ pc' = "idle"
    /\ outcome' = "raised"
    /\ nPointFits' = nPointFits + 1
    /\ UNCHANGED <<call, i, subStudies, oracle, fits, plot>>

\* one pass of the loop of parallelFit (lines 282-293) in worker k
WorkerStep(k) ==
    /\ pc = "parallel"
    /\ k \in 1..Len(subStudies)
    /\ subStudies[k].i < Len(subStudies[k].S.rasterValues)
    /\ LET w == subStudies[k]
           hyperParamValues == w.S.rasterValues[w.i + 1]
           S == StudyFit(SetSelectedHyperParameters(w.S, hyperParamValues),
                         oracle[hyperParamValues], call.evidenceOnly)
       IN subStudies' = [subStudies EXCEPT ![k] =
                            [S |-> ParallelAccumulate(S, w.i + 1, call.evidenceOnly),
                             i |-> w.i + 1]]
    /\ nPointFits' = nPointFits + 1
    /\ UNCHANGED <<self, pc, call, i, oracle, outcome, fits, plot>>

\* Study.fit raises in worker k: pool.map raises in fit
WorkerFail(k) ==
    /\ pc = "parallel"
    /\ k \in 1..Len(subStudies)
    /\ subStudies[k].i < Len(subStudies[k].S.rasterValues)
    /\ pc' = "idle"
    /\ outcome' = "raised"
    /\ nPointFits' = nPointFits + 1
    /\ UNCHANGED <<self, call, i, subStudies, oracle, fits, plot>>

\* the sweep is over (the loop ended, or pool.map returned and the sub-studies
\* are merged): lines 171-175 and 195-248
Finish ==
    /\ \/ pc = "sweep" /\ i = Len(self.rasterValues)
       \/ /\ pc = "parallel"
          /\ \A k \in 1..Len(subStudies) :
                subStudies[k].i = Len(subStudies[k].S.rasterValues)
    /\ self' = Aggregate(IF pc = "parallel"
                         THEN Merge(self, subStudies, Len(subStudies), call.evidenceOnly)
                         ELSE self,
                         call.evidenceOnly)
    /\ pc' = "idle"
    /\ outcome' = "finished"
    /\ UNCHANGED <<call, i, subStudies, oracle, nPointFits, fits, plot>>

PlotHyper(param) ==
    /\ pc = "idle"
    /\ LET r == PlotHyperParameterDistribution(self, param)
       IN plot' = [method |-> "hyper", params |-> <<param>>,
                   status |-> r.status, marginal |-> r.marginal]
    /\ UNCHANGED <<self, pc, call, i, subStudies, oracle, outcome, nPointFits, fits>>

PlotJoint(params) ==
    /\ pc = "idle"
    /\ LET r == PlotJointHyperParameterDistribution(self, params)
       IN plot' = [method |-> "joint", params |-> params,
                   status |-> r.status, marginal |-> r.marginal]
    /\ UNCHANGED <<self, pc, call, i, subStudies, oracle, outcome, nPointFits, fits>>

\* ------------------------------------------------------------------------
\* Inputs
\* ------------------------------------------------------------------------
Raster1(steps) == <<[name |-> "sigma", lower |-> 0, upper |-> 2, steps |-> steps]>>
Raster2(s1, s2) ==
    <<[name |-> "sigma", lower |-> 0, upper |-> 2, steps |-> s1],
      [name |-> "pMin", lower |-> 0, upper |-> 2, steps |-> s2]>>

PointsOf(rasters) ==
    UNION {{RasterValues(r)[p] : p \in 1..Len(RasterValues(r))} : r \in rasters}

\* fit calls: the arguments, whether pathos can be imported, and what
\* checkConsistency returns
Calls(rasters, priors, evidenceOnlys, customRasters, jobCounts, pathoses, consistents) ==
    [a : [raster : rasters, prior : priors, evidenceOnly : evidenceOnlys,
          customRaster : customRasters, nJobs : jobCounts],
     pathos : pathoses, consistent : consistents]

\* ---- the life cycle of fit: every way a call can end --------------------
LifeRaster == Raster1(2)
\* what a caller may have set before fit(customRaster=True)
CustomRasters ==
    {[raster |-> <<>>, rasterValues |-> <<>>, rasterConstant |-> <<>>],
     [raster |-> LifeRaster, rasterValues |-> <<>>, rasterConstant |-> <<>>],
     [raster |-> LifeRaster, rasterValues |-> << <<Zero>>, <<One>> >>,
      rasterConstant |-> <<>>],
     [raster |-> LifeRaster, rasterValues |-> << <<Zero>>, <<One>> >>,
      rasterConstant |-> <<One>>]}
LifeCalls ==
    \* calls that pass every check, by one process, by two, and by one for want of pathos
    Calls({LifeRaster}, {<<>>, <<"ramp">>}, BOOLEAN, {FALSE}, {1}, {FALSE}, {TRUE})
    \cup Calls({LifeRaster}, {<<>>}, BOOLEAN, {FALSE}, {2}, BOOLEAN, {TRUE})
    \* calls with a custom raster
    \cup Calls({<<>>}, {<<>>}, {FALSE}, {TRUE}, {1}, {FALSE}, {TRUE})
    \* calls with a wrong prior, and calls on an inconsistent study
    \cup Calls({LifeRaster}, {<<"flat", "flat">>, <<"free">>}, {FALSE}, {FALSE}, {1},
               {FALSE}, {TRUE})
    \cup Calls({LifeRaster}, {<<>>}, BOOLEAN, {FALSE}, {1}, {FALSE}, {FALSE})
    \* calls without a raster
    \cup Calls({<<>>}, {<<>>}, BOOLEAN, {FALSE}, {1}, {FALSE}, {TRUE})

Init == InitWith(Oracles(PointsOf({LifeRaster}) \cup {<<One>>}))

Next ==
    \/ \E c \in LifeCalls : Fit(c.a, c.pathos, c.consistent)
    \/ \E c \in LifeCalls : FitStandard(c.a)
    \/ \E c \in CustomRasters : SetCustomRaster(c)
    \/ SweepStep
    \/ SweepFail
    \/ \E k \in 1..MaxJobs : WorkerStep(k)
    \/ \E k \in 1..MaxJobs : WorkerFail(k)
    \/ Finish

Spec == Init /\ [][Next]_vars

\* the first fit call on a new instance
FitOnce(a, pathos, consistent) == fits = 0 /\ Fit(a, pathos, consistent)

\* ---- the parallel sweep: one fit per run, 1 to MaxJobs workers ----------
ParallelRasters == {Raster1(steps) : steps \in 2..MaxSteps} \cup {Raster2(2, 2)}
ParallelCalls ==
    Calls(ParallelRasters, {<<>>, <<"flat">>}, BOOLEAN, {FALSE}, 1..MaxJobs, {TRUE}, {TRUE})

InitParallel == InitWith(Oracles(PointsOf(ParallelRasters)))

NextParallel ==
    \/ \E c \in ParallelCalls : FitOnce(c.a, c.pathos, c.consistent)
    \/ SweepStep
    \/ \E k \in 1..MaxJobs : WorkerStep(k)
    \/ Finish

SpecParallel == InitParallel /\ [][NextParallel]_vars

\* ---- marginalisation: one single-process fit per run, then the plots -----
MarginalRasters ==
    {Raster1(steps) : steps \in 2..MaxAxis}
    \cup {Raster2(s1, s2) : s1 \in 2..MaxAxis, s2 \in {2}}
MarginalPriors == {<<>>, <<"flat">>, <<"ramp">>, <<"far">>, <<"flat", "ramp">>}
MarginalCalls ==
    Calls(MarginalRasters, MarginalPriors, BOOLEAN, {FALSE}, {1}, {FALSE}, {TRUE})

\* the parameters of the plot calls: names and indices, known and unknown
ByName(name) == [kind |-> "str", name |-> name, index |-> -1]
ByIndex(index) == [kind |-> "int", name |-> "", index |-> index]
ByFloat == [kind |-> "float", name |-> "", index |-> -1]
PlotParams ==
    {ByName("sigma"), ByName("pMin"), ByName("nope"),
     ByIndex(0), ByIndex(1), ByIndex(MaxAxis), ByFloat}
PlotParamLists ==
    {<<ByName("sigma"), ByName("pMin")>>,
     <<ByName("pMin"), ByName("sigma")>>,
     <<ByName("sigma"), ByName("nope")>>,
     <<ByName("nope"), ByName("none")>>,
     <<ByIndex(0), ByIndex(1)>>,
     <<ByIndex(0), ByIndex(MaxAxis)>>,
     <<ByIndex(0), ByName("pMin")>>,
     <<ByName("sigma")>>}

InitMarginal == InitWith(Oracles(PointsOf(MarginalRasters)))

NextMarginal ==
    \/ \E c \in MarginalCalls : FitOnce(c.a, c.pathos, c.consistent)
    \/ SweepStep
    \/ Finish
    \/ \E param \in PlotParams : PlotHyper(param)
    \/ \E params \in PlotParamLists : PlotJoint(params)

SpecMarginal == InitMarginal /\ [][NextMarginal]_vars

\* ------------------------------------------------------------------------
\* The single-process fit as one computation
\* ------------------------------------------------------------------------
\* the loop of lines 178-189 over the first n raster points
RECURSIVE SweepAll(_, _, _)
SweepAll(s, n, evidenceOnly) ==
    IF n = 0 THEN s
    ELSE LET prev == SweepAll(s, n - 1, evidenceOnly)
             hyperParamValues == prev.rasterValues[n]
         IN SweepAccumulate(StudyFit(SetSelectedHyperParameters(prev, hyperParamValues),
                                     oracle[hyperParamValues], evidenceOnly),
                            n, evidenceOnly)

\* lines 103-248 with nJobs = 1 for the raster of s and the prior and mode of c
SingleProcessFit(s, c) ==
    Aggregate(SweepAll(AllocStage(PriorStage(s, c).st, c), Len(s.rasterValues),
                       c.evidenceOnly),
              c.evidenceOnly)

\* ------------------------------------------------------------------------
\* Claims
\* ------------------------------------------------------------------------
ConfigErrors ==
    {"noRaster", "noRasterValues", "noRasterConstant", "priorCount", "priorFree",
     "inconsistent"}

AggregateState(s) ==
    [logEvidence |-> s.logEvidence,
     hyperParameterDistribution |-> s.hyperParameterDistribution,
     averagePosteriorSequence |-> s.averagePosteriorSequence,
     posteriorSequence |-> s.posteriorSequence,
     posteriorMeanValues |-> s.posteriorMeanValues]

PosteriorFields(s) ==
    <<s.averagePosteriorSequence, s.posteriorSequence, s.posteriorMeanValues>>

\* C1: when a fit with N > 1 workers has finished, the log-evidence, the
\* hyper-parameter distribution and the (normalised) averaged posterior sequence
\* of the instance are those of the single-process fit for the same raster,
\* prior and per-point fit results.
C1_ParallelEqualsSingleProcess ==
    (outcome = "finished" /\ call.jobs > 1) =>
        LET single == SingleProcessFit(self, call)
        IN /\ self.logEvidence = single.logEvidence
           /\ self.hyperParameterDistribution = single.hyperParameterDistribution
           /\ self.averagePosteriorSequence = single.averagePosteriorSequence

\* C2: a fit call that returns on a configuration error leaves the aggregate
\* state of the previous fit (log-evidence, hyper-parameter distribution,
\* averaged posterior sequence, posterior sequence, posterior mean values) as
\* it was.
C2_ConfigErrorKeepsAggregate ==
    [][(outcome = "finished" /\ outcome' \in ConfigErrors)
          => AggregateState(self') = AggregateState(self)]_vars

\* C3: within a fit call Study.fit runs for a raster point only once the grid
\* is built, the prior is computed and every configuration check has passed; a
\* call that ends on a configuration error (an empty rasterValues with a custom
\* raster, a prior list of the wrong length, ...) has returned with no raster
\* point evaluated.
C3_NoPointFitBeforeChecks ==
    /\ outcome \in ConfigErrors => (pc = "idle" /\ nPointFits = 0)
    /\ (pc # "idle" \/ nPointFits > 0) =>
          /\ outcome \in {"running", "finished", "raised"}
          /\ call.consistent
          /\ FirstFree(call.prior) = 0
    /\ pc # "idle" =>
          /\ self.raster # <<>> /\ self.rasterValues # <<>> /\ self.rasterConstant # <<>>
          /\ call.prior # <<>> => Len(call.prior) = Len(self.rasterValues[1])
          /\ self.hyperParameterPrior # None
          /\ Len(self.hyperParameterPrior) = Len(self.rasterValues)
          /\ self.selectedHyperParameters = Names(self.raster)

C3_Witness ==
    /\ outcome = "noRasterValues" /\ fits > 0 /\ pc = "idle" /\ nPointFits = 0
    /\ self.raster # <<>> /\ self.rasterValues = <<>>

\* C4: when Study.fit fails at a raster point during the sweep, the instance
\* the caller is left with holds no partial aggregate: the evidence lists are
\* empty and the averaged posterior sequence is not the sum over the points
\* done so far.
C4_NoPartialAggregate ==
    [][(outcome = "running" /\ outcome' = "raised")
          => /\ self'.logEvidenceList = <<>>
             /\ self'.localEvidenceList = <<>>
             /\ (pc = "sweep" /\ i > 0 /\ ~call.evidenceOnly)
                   => self'.averagePosteriorSequence # self.averagePosteriorSequence]_vars

\* a parameter of a marginalisation call that cannot be resolved against the raster
Unresolvable(s, param) ==
    \/ param.kind = "str" /\ \A d \in 1..Len(s.raster) : s.raster[d].name # param.name
    \/ param.kind = "int" /\ param.index \notin 0..(Len(s.raster) - 1)

\* C5: a marginalisation call (one parameter for plotHyperParameterDistribution,
\* two for plotJointHyperParameterDistribution) with a parameter that cannot be
\* resolved against the raster (unknown name, one of two names unknown, index
\* out of range) is reported as a configuration error: it returns without
\* raising and gives no marginal.
C5_UnresolvableIsConfigError ==
    [][(/\ plot' # plot
        /\ self.raster # <<>>
        /\ Len(plot'.params) = (IF plot'.method = "hyper" THEN 1 ELSE 2)
        /\ \E k \in 1..Len(plot'.params) : Unresolvable(self, plot'.params[k]))
          => (plot'.status = "config" /\ plot'.marginal = None)]_vars

\* the sections of the workers, the first n of them, one after the other
RECURSIVE ConcatShards(_, _)
ConcatShards(subs, n) ==
    IF n = 0 THEN [rasterValues |-> <<>>, hyperParameterPrior |-> <<>>]
    ELSE LET c == ConcatShards(subs, n - 1)
         IN [rasterValues |-> c.rasterValues \o subs[n].S.rasterValues,
             hyperParameterPrior |-> c.hyperParameterPrior \o subs[n].S.hyperParameterPrior]

\* C6: in a fit with N > 1 workers the raster points and the prior are split at
\* the same places into N contiguous shards, one per worker; the sizes of the
\* shards differ by at most one and never grow with the shard index; the shards
\* in index order, one after the other, are the raster points and the prior of
\* the instance (so every point is in exactly one shard).
C6_ShardsPartitionTheGrid ==
    pc = "parallel" =>
        /\ Len(subStudies) = call.jobs /\ call.jobs = call.nJobs /\ call.nJobs > 1
        /\ \A k \in 1..Len(subStudies) :
              Len(subStudies[k].S.rasterValues) = Len(subStudies[k].S.hyperParameterPrior)
        /\ \A k, m \in 1..Len(subStudies) :
              k < m => Len(subStudies[k].S.rasterValues)
                          \in {Len(subStudies[m].S.rasterValues),
                               Len(subStudies[m].S.rasterValues) + 1}
        /\ ConcatShards(subStudies, Len(subStudies)).rasterValues = self.rasterValues
        /\ ConcatShards(subStudies, Len(subStudies)).hyperParameterPrior
              = self.hyperParameterPrior

C6_Witness ==
    /\ pc = "parallel" /\ Len(subStudies) = 3 /\ Len(self.rasterValues) = 5
    /\ Len(subStudies[1].S.rasterValues) = 2 /\ Len(subStudies[3].S.rasterValues) = 1
    /\ \A k \in 1..3 : subStudies[k].i = Len(subStudies[k].S.rasterValues)

\* C7: the hyper-parameter prior a sweep works with is non-negative and sums to
\* one over the raster points, uniform (1/number of points each) when the call
\* passed no prior.
C7_PriorSumsToOne ==
    pc # "idle" =>
        /\ \A p \in 1..Len(self.hyperParameterPrior) : IsFinite(self.hyperParameterPrior[p])
        /\ WSum(self.hyperParameterPrior) = One
        /\ call.prior = <<>> =>
              \A p \in 1..Len(self.hyperParameterPrior) :
                  self.hyperParameterPrior[p] = WDiv(One, Num(Len(self.rasterValues)))

\* C8: after a finished fit on a regular raster the hyper-parameter distribution
\* summed over the raster times the product of the raster constants is one, and
\* for every dimension d the marginal distribution of d summed over its axis
\* times the raster constant of d is one.
C8_DensityIntegratesToOne ==
    (outcome = "finished" /\ pc = "idle" /\ ~call.customRaster) =>
        /\ WMul(WSum(self.hyperParameterDistribution), WProd(self.rasterConstant)) = One
        /\ \A d \in 1..Len(self.raster) :
              LET m == PlotHyperParameterDistribution(self, ByIndex(d - 1))
              IN /\ m.status = "ok"
                 /\ WMul(WSum(m.marginal), self.rasterConstant[d]) = One

\* C9: no step of a fit call in evidence-only mode writes the averaged posterior
\* sequence, the posterior sequence or the posterior mean values, and when the
\* call finishes the log-evidence of the average model (the logarithm of the
\* prior-weighted sum of the point evidences) and a hyper-parameter
\* distribution over the raster are there.
C9_EvidenceOnlyFrame ==
    [][((fits' = fits + 1 /\ call'.evidenceOnly) \/ (pc # "idle" /\ call.evidenceOnly))
          => /\ PosteriorFields(self') = PosteriorFields(self)
             /\ (outcome = "running" /\ outcome' = "finished") =>
                   /\ self'.logEvidence =
                         Log(WSum([k \in 1..Len(self.rasterValues) |->
                                     WMul(oracle[self.rasterValues[k]].E,
                                          self.hyperParameterPrior[k])]))
                   /\ self'.hyperParameterDistribution # None
                   /\ Len(self'.hyperParameterDistribution) = Len(self.rasterValues)]_vars

C9_Witness ==
    /\ outcome = "finished" /\ call.evidenceOnly /\ fits = 1
    /\ self.logEvidence # None /\ self.hyperParameterDistribution # None
    /\ self.averagePosteriorSequence = None /\ self.posteriorSequence = None

\* C10: a fit called with nJobs > 1 when pathos cannot be imported runs the
\* single-process sweep: no worker is started, it can only fail where Study.fit
\* fails, and when it finishes the instance holds the results of the fit with
\* one process.
C10_FallbackToSingleProcess ==
    [][/\ (fits' = fits + 1 /\ call'.nJobs > 1 /\ ~call'.pathos)
             => /\ outcome' = "running" /\ pc' = "sweep"
                /\ call'.jobs = 1 /\ subStudies' = <<>>
       /\ (outcome = "running" /\ call.nJobs > 1 /\ ~call.pathos)
             => /\ pc = "sweep" /\ pc' # "parallel"
                /\ outcome' = "raised" => nPointFits' > 0
                /\ outcome' = "finished" =>
                      /\ nPointFits' = Len(self.rasterValues)
                      /\ Results(self') = Results(SingleProcessFit(self', call))]_vars

C10_Witness ==
    /\ call.nJobs > 1 /\ ~call.pathos /\ outcome = "finished"
    /\ nPointFits = Len(self.rasterValues)
    /\ self.posteriorSequence # None

\* how a fit call ends when it returns (and does not raise)
Returned == ConfigErrors \cup {"finished", "standard"}

\* C11: the hyper-parameter prior is computed before the sweep and discarded at
\* the end of the fit: whenever a fit call has returned the instance holds no
\* hyper-parameter prior and empty log-evidence and local-evidence lists, and a
\* sweep works with the prior computed by its own call.
C11_PriorDiscardedOnReturn ==
    /\ (pc = "idle" /\ outcome \in Returned) =>
          /\ self.hyperParameterPrior = None
          /\ self.logEvidenceList = <<>>
          /\ self.localEvidenceList = <<>>
    /\ pc # "idle" =>
          self.hyperParameterPrior = PriorStage(self, call).st.hyperParameterPrior

\* the log-evidences and the local evidences of the raster points pts, in order
PointLogEvidences(pts) == [p \in 1..Len(pts) |-> Log(oracle[pts[p]].E)]
PointLocalEvidences(pts) == [p \in 1..Len(pts) |-> oracle[pts[p]].le]

\* C12: in a fit with N workers every worker appends to the lists of its own
\* copy only: while the workers run, in any order, the lists and the accumulator
\* of the instance stay as allocated and the lists of each copy hold one entry
\* for each point of its shard done so far; once all workers are done the merged
\* log-evidence and local-evidence lists hold exactly one entry per raster
\* point, entry p belonging to raster point p.
C12_MergedListsInGridOrder ==
    pc = "parallel" =>
        /\ self.logEvidenceList = <<>> /\ self.localEvidenceList = <<>>
        /\ ~call.evidenceOnly => self.averagePosteriorSequence = Zeros
        /\ \A k \in 1..Len(subStudies) :
              LET w == subStudies[k]
                  done == SubSeq(w.S.rasterValues, 1, w.i)
              IN /\ w.S.logEvidenceList = PointLogEvidences(done)
                 /\ w.S.localEvidenceList = PointLocalEvidences(done)
        /\ (\A k \in 1..Len(subStudies) :
                subStudies[k].i = Len(subStudies[k].S.rasterValues))
              => LET m == Merge(self, subStudies, Len(subStudies), call.evidenceOnly)
                 IN /\ m.logEvidenceList = PointLogEvidences(self.rasterValues)
                    /\ m.localEvidenceList = PointLocalEvidences(self.rasterValues)

C12_Witness ==
    /\ pc = "parallel" /\ Len(subStudies) = 2 /\ Len(self.rasterValues) = 3
    /\ subStudies[1].i = 2 /\ subStudies[2].i = 1
    /\ Len(subStudies[1].S.logEvidenceList) = 2
    /\ oracle[self.rasterValues[1]].E # oracle[self.rasterValues[3]].E

\* C13: whenever a fit call returns, on the success path or on an abort path,
\* the list of selected hyper-parameters, which fit sets to the names of the
\* raster for the sweep, is empty again.
C13_SelectionResetOnReturn ==
    [][(fits' = fits + 1 \/ pc # "idle") =>
          ((pc' = "idle" /\ outcome' \in Returned)
              => self'.selectedHyperParameters = <<>>)]_vars
====
